---- MODULE Spec2Model ----
(***************************************************************************)
(* Geocoin Carrier (src/src/main.ts): the cache / memento / inventory /    *)
(* persistence state machine behind the map UI.                            *)
(*                                                                         *)
(* Coordinates are integers in units of 1e-5 degree, so that a tile        *)
(* (TILE_DEGREES = 1e-4 degree) is 10 units wide and a player position can *)
(* lie strictly inside a tile.  luck values are integers in percent        *)
(* (luck = n/100).                                                         *)
(***************************************************************************)
EXTENDS Integers, Sequences, FiniteSets, Bags, TLC

VARIABLES
    pc,               \* "running" once the module has loaded, "crashed" when loading threw
    playerLocation,   \* let playerLocation (LatLng)
    watchId,          \* let watchId: number | null
    watches,          \* number of position watches registered with the browser
    polyline,         \* number of points of the movement trail
    cacheDataMap,     \* active cache store: key -> Cache
    cacheMementos,    \* memento store: key -> Cache
    playerInventory,  \* playerInventory.coins
    inventoryHTML,    \* the coins inventory.innerHTML lists, in order
    localStorage,     \* the "gameState" slot of localStorage
    clicks,           \* number of coins transferred so far (bounds the exploration)
    trip              \* bookkeeping of a collect-all / deposit-all round trip

vars == <<pc, playerLocation, watchId, watches, polyline, cacheDataMap, cacheMementos,
          playerInventory, inventoryHTML, localStorage, clicks, trip>>

----------------------------------------------------------------------------
(* Bounds of the exploration *)

MaxDrift == 1      \* the player's grid cell stays within this distance of the default cell
MaxTrail == 2      \* moves are explored while the trail has fewer points than this
MaxClicks == 2     \* coin transfers explored outside a round trip

----------------------------------------------------------------------------
(* Gameplay parameters *)

TILE_DEGREES == 10
NEIGHBORHOOD_SIZE == 8
CACHE_SPAWN_PROBABILITY == 10

NULL == 0

\* leaflet.latLng(36.98949379578401, -122.06277128548504)
DefaultLocation == [lat |-> 3698949, lng |-> -12206278]

----------------------------------------------------------------------------
(* Sequences *)

Last(s) == s[Len(s)]
Front(s) == SubSeq(s, 1, Len(s) - 1)

----------------------------------------------------------------------------
(* luck.ts is not part of the sources: a pure function from a seed string  *)
(* to [0,1).  The model fixes one sample of it: a seed is the list that    *)
(* the code joins into the string, the value is in percent.  Four cells    *)
(* around the default location spawn a cache; every other seed has luck    *)
(* 0.50.                                                                   *)

I0 == 369894
J0 == -1220628

LuckSample ==
    ( <<I0,     J0 + 1, "spawn">> :> 3 ) @@
    ( <<I0 + 2, J0 - 3, "spawn">> :> 7 ) @@
    ( <<I0 - 8, J0,     "spawn">> :> 9 ) @@
    ( <<I0 + 9, J0 + 2, "spawn">> :> 0 ) @@
    ( <<(I0) * 10,     (J0 + 1) * 10, "initialValue">> :> 35 ) @@
    ( <<(I0 + 2) * 10, (J0 - 3) * 10, "initialValue">> :> 5 ) @@
    ( <<(I0 - 8) * 10, (J0) * 10,     "initialValue">> :> 27 ) @@
    ( <<(I0 + 9) * 10, (J0 + 2) * 10, "initialValue">> :> 12 )

luck(seed) == IF seed \in DOMAIN LuckSample THEN LuckSample[seed] ELSE 50

----------------------------------------------------------------------------
(* Grid and cells *)

\* Math.round(coord * 10000)
formatCoord(coord) == (coord + 5) \div 10

\* { i: Math.floor(lat / TILE_DEGREES), j: Math.floor(lng / TILE_DEGREES) }
latLngToGrid(lat, lng) == [i |-> lat \div TILE_DEGREES, j |-> lng \div TILE_DEGREES]

\* the flyweight cell { lat, lng }
getCell(lat, lng) == [lat |-> lat, lng |-> lng]

\* `${cell.lat}:${cell.lng}`
cacheKeyOf(cell) == <<cell.lat, cell.lng>>

EmptyMap == [k \in {} |-> 0]

----------------------------------------------------------------------------
(* Persistence *)

\* stringify of a gameState built without the inventory
stringifyNoCoins(loc, coins, mementos) ==
    [kind |-> "object",
     playerLocation |-> [lat |-> loc.lat, lng |-> loc.lng],
     coins |-> <<>>,
     cacheMementos |-> {<<k, mementos[k]>> : k \in DOMAIN mementos}]

\* JSON.stringify(gameState): an object with three members; the memento
\* object becomes its set of key/value members
stringify(loc, coins, mementos) ==
    [kind |-> "object",
     playerLocation |-> [lat |-> loc.lat, lng |-> loc.lng],
     coins |-> coins,
     cacheMementos |-> {<<k, mementos[k]>> : k \in DOMAIN mementos}]

\* saveGameState(): the value localStorage holds afterwards
saveGameState(loc, coins, mementos) == stringify(loc, coins, mementos)

\* the values the slot can hold before the first load
Absent == [kind |-> "absent"]
InitialSlots == {Absent, [kind |-> "unparseable"], [kind |-> "null"], [kind |-> "scalar"]}

\* JSON.parse(localStorage.getItem("gameState") || "{}") and the three reads
\* of savedState: throws on text that is not JSON, and on null when a
\* property of it is read
savedStateThrows(slot) == slot.kind \in {"unparseable", "null"}

savedPlayerLocation(slot) ==
    IF slot.kind = "object" THEN slot.playerLocation ELSE DefaultLocation

savedCacheMementos(slot) ==
    IF slot.kind = "object"
    THEN [k \in {m[1] : m \in slot.cacheMementos} |->
            (CHOOSE m \in slot.cacheMementos : m[1] = k)[2]]
    ELSE EmptyMap

savedCoins(slot) == IF slot.kind = "object" THEN slot.coins ELSE <<>>

----------------------------------------------------------------------------
(* Cache store *)

\* newCoins with serials counted from 1
newCoinsFromOne(cell) ==
    [n \in 1..(luck(<<cell.lat, cell.lng, "initialValue">>) \div 10) |->
        [cell |-> cell, serial |-> n]]

\* Array.from({ length: floor(luck(...) * 10) }, (_, serial) => ({ cell, serial }))
newCoins(cell) ==
    [n \in 1..(luck(<<cell.lat, cell.lng, "initialValue">>) \div 10) |->
        [cell |-> cell, serial |-> n - 1]]

\* getOrCreateCache that never looks at the memento store
getOrCreateCacheFresh(map, mem, i, j) ==
    LET lat == i * TILE_DEGREES
        lng == j * TILE_DEGREES
        cell == getCell(lat, lng)
        cacheKey == cacheKeyOf(cell)
        map1 == IF cacheKey \notin DOMAIN map
                THEN (cacheKey :> [cell |-> cell, coins |-> newCoins(cell)]) @@ map
                ELSE map
        cache == map1[cacheKey]
    IN  [map |-> map1, mem |-> (cacheKey :> cache) @@ mem]

\* getOrCreateCache(i, j): the two stores afterwards.  The store entry and
\* the memento entry are one object from here on.
getOrCreateCache(map, mem, i, j) ==
    LET lat == i * TILE_DEGREES
        lng == j * TILE_DEGREES
        cell == getCell(lat, lng)
        cacheKey == cacheKeyOf(cell)
        map1 == IF cacheKey \notin DOMAIN map
                THEN IF cacheKey \in DOMAIN mem
                     THEN (cacheKey :> mem[cacheKey]) @@ map
                     ELSE (cacheKey :> [cell |-> cell, coins |-> newCoins(cell)]) @@ map
                ELSE map
        cache == map1[cacheKey]
    IN  [map |-> map1, mem |-> (cacheKey :> cache) @@ mem]

\* the cells of the double loop over di, dj that pass the spawn test
spawnCells(g) ==
    {c \in ((g.i - NEIGHBORHOOD_SIZE)..(g.i + NEIGHBORHOOD_SIZE))
            \X ((g.j - NEIGHBORHOOD_SIZE)..(g.j + NEIGHBORHOOD_SIZE)) :
        luck(<<c[1], c[2], "spawn">>) < CACHE_SPAWN_PROBABILITY}

\* the loop visits di in increasing order and, for each di, dj in increasing order
loopBefore(c, d) == c[1] < d[1] \/ (c[1] = d[1] /\ c[2] <= d[2])

\* spawnCache(i, j) for each of the cells, in loop order
RECURSIVE spawnEach(_, _)
spawnEach(cells, st) ==
    IF cells = {} THEN st
    ELSE LET c == CHOOSE x \in cells : \A y \in cells : loopBefore(x, y)
         IN  spawnEach(cells \ {c}, getOrCreateCache(st.map, st.mem, c[1], c[2]))

\* spawnNearbyCaches scanning around the cell of the start location instead
\* of the player's current cell
spawnNearbyCachesAtStart(loc, map, mem) ==
    spawnEach(spawnCells(latLngToGrid(DefaultLocation.lat, DefaultLocation.lng)),
              [map |-> map, mem |-> mem])

\* spawnNearbyCaches(): the two stores afterwards
spawnNearbyCaches(loc, map, mem) ==
    spawnEach(spawnCells(latLngToGrid(loc.lat, loc.lng)), [map |-> map, mem |-> mem])

\* clearOutOfViewCaches that leaves the active store as it is
clearOutOfViewCachesKeep(map) == map

\* clearOutOfViewCaches(): cacheDataMap.clear()
clearOutOfViewCaches(map) == EmptyMap

\* movePlayer saving the active store in place of the memento store
movePlayerSaveActive(newLoc, trail, coins, st) ==
    [playerLocation |-> newLoc,
     polyline |-> trail + 1,
     cacheDataMap |-> st.map,
     cacheMementos |-> st.mem,
     localStorage |-> saveGameState(newLoc, coins, st.map)]

\* movePlayer, after the rescan has left the stores st: the game state
\* with the record saveGameState writes
movePlayerSave(newLoc, trail, coins, st) ==
    [playerLocation |-> newLoc,
     polyline |-> trail + 1,
     cacheDataMap |-> st.map,
     cacheMementos |-> st.mem,
     localStorage |-> saveGameState(newLoc, coins, st.mem)]

\* movePlayer(deltaLat, deltaLng) from the given state: the new location,
\* trail, stores and slot
movePlayer(loc, trail, map, mem, coins, deltaLat, deltaLng) ==
    LET newLoc == [lat |-> loc.lat + deltaLat, lng |-> loc.lng + deltaLng]
    IN  movePlayerSave(newLoc, trail, coins,
                       spawnNearbyCaches(newLoc, clearOutOfViewCaches(map), mem))

----------------------------------------------------------------------------
(* Inventory *)

sameCoin(c, coin) ==
    c.cell.lat = coin.cell.lat /\ c.cell.lng = coin.cell.lng /\ c.serial = coin.serial

\* updateInventoryState whose filter compares the origin cell only
updateInventoryStateByCell(coins, coin, action) ==
    IF action = "add" THEN Append(coins, coin)
    ELSE IF action = "remove"
         THEN SelectSeq(coins, LAMBDA c : ~(c.cell.lat = coin.cell.lat /\ c.cell.lng = coin.cell.lng))
    ELSE coins

\* updateInventoryState whose "add" branch does not push the coin
updateInventoryStateNoPush(coins, coin, action) ==
    IF action = "remove" THEN SelectSeq(coins, LAMBDA c : ~sameCoin(c, coin))
    ELSE coins

\* updateInventoryState(coin, action): playerInventory.coins afterwards
updateInventoryState(coins, coin, action) ==
    IF action = "add" THEN Append(coins, coin)
    ELSE IF action = "remove" THEN SelectSeq(coins, LAMBDA c : ~sameCoin(c, coin))
    ELSE coins

\* updateInventoryUI(): the ids inventory.innerHTML lists, one per carried
\* coin, as formatCoord(coin.cell.lat):formatCoord(coin.cell.lng)#serial;
\* the text "No coins collected." lists none
updateInventoryUI(coins) ==
    [n \in DOMAIN coins |->
        <<formatCoord(coins[n].cell.lat), formatCoord(coins[n].cell.lng), coins[n].serial>>]

----------------------------------------------------------------------------
(* Startup: the module body, lines 88-151 and 416-420 *)

NoTrip == [phase |-> "idle"]

\* the module body after movePlayer(0, 0) has left the state m:
\* updateInventory(null, "init")
StartupInit(m, coins) ==
    [pc |-> "running", playerLocation |-> m.playerLocation,
     polyline |-> m.polyline,
     cacheDataMap |-> m.cacheDataMap, cacheMementos |-> m.cacheMementos,
     playerInventory |-> coins,
     localStorage |-> saveGameState(m.playerLocation, coins, m.cacheMementos)]

Startup(slot) ==
    IF savedStateThrows(slot)
    THEN [pc |-> "crashed", playerLocation |-> DefaultLocation, polyline |-> 0,
          cacheDataMap |-> EmptyMap, cacheMementos |-> EmptyMap,
          playerInventory |-> <<>>, localStorage |-> slot]
    ELSE StartupInit(movePlayer(savedPlayerLocation(slot), 0, EmptyMap,
                                savedCacheMementos(slot), savedCoins(slot), 0, 0),
                     updateInventoryState(savedCoins(slot), NULL, "init"))

Init ==
    \E slot \in InitialSlots :
        \E s \in {Startup(slot)} :
            /\ pc = s.pc
            /\ playerLocation = s.playerLocation
            /\ watchId = NULL
            /\ watches = 0
            /\ polyline = s.polyline
            /\ cacheDataMap = s.cacheDataMap
            /\ cacheMementos = s.cacheMementos
            /\ playerInventory = s.playerInventory
            /\ inventoryHTML = updateInventoryUI(s.playerInventory)
            /\ localStorage = s.localStorage
            /\ clicks = 0
            /\ trip = NoTrip

\* the page is loaded again: the module body runs on the slot as it is
Reload ==
    \E s \in {Startup(localStorage)} :
        /\ trip = NoTrip
        /\ pc' = s.pc
        /\ playerLocation' = s.playerLocation
        /\ watchId' = NULL
        /\ watches' = 0
        /\ polyline' = s.polyline
        /\ cacheDataMap' = s.cacheDataMap
        /\ cacheMementos' = s.cacheMementos
        /\ playerInventory' = s.playerInventory
        /\ inventoryHTML' = updateInventoryUI(s.playerInventory)
        /\ localStorage' = s.localStorage
        /\ UNCHANGED <<clicks, trip>>

----------------------------------------------------------------------------
(* Handlers.  They exist only once the module body has run to its end. *)

InBounds(loc) ==
    LET g == latLngToGrid(loc.lat, loc.lng)
    IN  /\ g.i - I0 \in -MaxDrift..MaxDrift
        /\ g.j - J0 \in -MaxDrift..MaxDrift

\* const movementDeltas
movementDeltas ==
    << <<TILE_DEGREES, 0>>, <<-TILE_DEGREES, 0>>, <<0, -TILE_DEGREES>>, <<0, TILE_DEGREES>> >>

\* the state after movePlayer(deltaLat, deltaLng)
moved(deltaLat, deltaLng) ==
    /\ playerLocation' = [lat |-> playerLocation.lat + deltaLat,
                          lng |-> playerLocation.lng + deltaLng]
    /\ \E m \in {movePlayer(playerLocation, polyline, cacheDataMap, cacheMementos,
                          playerInventory, deltaLat, deltaLng)} :
        /\ playerLocation' = m.playerLocation
        /\ polyline' = m.polyline
        /\ cacheDataMap' = m.cacheDataMap
        /\ cacheMementos' = m.cacheMementos
        /\ localStorage' = m.localStorage
        /\ UNCHANGED <<pc, watchId, watches, playerInventory, inventoryHTML, clicks, trip>>

\* click on one of the four direction buttons
Move(index) ==
    /\ pc = "running"
    /\ trip = NoTrip
    /\ polyline < MaxTrail
    /\ InBounds([lat |-> playerLocation.lat + movementDeltas[index][1],
                 lng |-> playerLocation.lng + movementDeltas[index][2]])
    /\ moved(movementDeltas[index][1], movementDeltas[index][2])

\* the positions the geolocation watch reports
GeoFixes == { [lat |-> 3698957, lng |-> -12206265] }

\* the watchPosition success callback
GeoPosition(position) ==
    /\ pc = "running"
    /\ trip = NoTrip
    /\ watches > 0
    /\ polyline < MaxTrail
    /\ InBounds(position)
    /\ moved(position.lat - playerLocation.lat, position.lng - playerLocation.lng)

\* the watchPosition error callback: console.error
GeoError ==
    /\ pc = "running"
    /\ trip = NoTrip
    /\ watches > 0
    /\ UNCHANGED vars

\* a globe button handler that drops its handle without clearWatch
ToggleGeoNoClear ==
    /\ pc = "running"
    /\ trip = NoTrip
    /\ watchId' = IF watchId # NULL THEN NULL ELSE 1
    /\ watches' = IF watchId # NULL THEN watches ELSE watches + 1
    /\ UNCHANGED <<pc, playerLocation, polyline, cacheDataMap, cacheMementos,
                   playerInventory, inventoryHTML, localStorage, clicks, trip>>

\* click on the globe button: clearWatch(watchId) when watchId is truthy,
\* watchPosition(...) otherwise; the browser hands out ids greater than zero
ToggleGeo ==
    /\ pc = "running"
    /\ trip = NoTrip
    /\ watchId' = IF watchId # NULL THEN NULL ELSE 1
    /\ watches' = IF watchId # NULL THEN watches - 1 ELSE watches + 1
    /\ UNCHANGED <<pc, playerLocation, polyline, cacheDataMap, cacheMementos,
                   playerInventory, inventoryHTML, localStorage, clicks, trip>>

\* the memento store holding a copy instead of the cache object
writeThroughCopy(mem, cacheKey, cache) == mem

\* the cache a popup mutates is the object held by both stores (lines 254, 268)
writeThrough(mem, cacheKey, cache) == [mem EXCEPT ![cacheKey] = cache]

\* a collect handler that takes the first coin of the cache (shift for pop)
collectFirst(cacheKey) ==
    LET cache == cacheDataMap[cacheKey]
    IN  IF Len(cache.coins) > 0
        THEN LET coin == Head(cache.coins)
                 popped == [cache EXCEPT !.coins = Tail(cache.coins)]
                 coins == updateInventoryState(playerInventory, coin, "add")
                 mem == writeThrough(cacheMementos, cacheKey, popped)
             IN  /\ cacheDataMap' = [cacheDataMap EXCEPT ![cacheKey] = popped]
                 /\ cacheMementos' = mem
                 /\ playerInventory' = coins
                 /\ localStorage' = saveGameState(playerLocation, coins, mem)
        ELSE UNCHANGED <<cacheDataMap, cacheMementos, playerInventory, localStorage>>

\* a collect handler that reads the last coin and leaves it in the cache
collectKeep(cacheKey) ==
    LET cache == cacheDataMap[cacheKey]
    IN  IF Len(cache.coins) > 0
        THEN LET coin == Last(cache.coins)
                 coins == updateInventoryState(playerInventory, coin, "add")
             IN  /\ playerInventory' = coins
                 /\ localStorage' = saveGameState(playerLocation, coins, cacheMementos)
                 /\ UNCHANGED <<cacheDataMap, cacheMementos>>
        ELSE UNCHANGED <<cacheDataMap, cacheMementos, playerInventory, localStorage>>

\* the collect handler of the popup of the cache at cacheKey
collect(cacheKey) ==
    LET cache == cacheDataMap[cacheKey]
    IN  IF Len(cache.coins) > 0
        THEN LET coin == Last(cache.coins)
                 popped == [cache EXCEPT !.coins = Front(cache.coins)]
                 coins == updateInventoryState(playerInventory, coin, "add")
                 mem == writeThrough(cacheMementos, cacheKey, popped)
             IN  /\ cacheDataMap' = [cacheDataMap EXCEPT ![cacheKey] = popped]
                 /\ cacheMementos' = mem
                 /\ playerInventory' = coins
                 /\ localStorage' = saveGameState(playerLocation, coins, mem)
        ELSE UNCHANGED <<cacheDataMap, cacheMementos, playerInventory, localStorage>>

\* a deposit handler that saves the game state outside its if
depositSaveAlways(cacheKey) ==
    LET cache == cacheDataMap[cacheKey]
    IN  IF Len(playerInventory) > 0
        THEN LET coin == Last(playerInventory)
                 pushed == [cache EXCEPT !.coins = Append(cache.coins, coin)]
                 coins == updateInventoryState(Front(playerInventory), coin, "remove")
                 mem == writeThrough(cacheMementos, cacheKey, pushed)
             IN  /\ cacheDataMap' = [cacheDataMap EXCEPT ![cacheKey] = pushed]
                 /\ cacheMementos' = mem
                 /\ playerInventory' = coins
                 /\ localStorage' = saveGameState(playerLocation, coins, mem)
        ELSE /\ localStorage' = saveGameState(playerLocation, playerInventory, cacheMementos)
             /\ UNCHANGED <<cacheDataMap, cacheMementos, playerInventory>>

\* a deposit handler that takes the oldest coin of the inventory (shift for pop)
depositFirst(cacheKey) ==
    LET cache == cacheDataMap[cacheKey]
    IN  IF Len(playerInventory) > 0
        THEN LET coin == Head(playerInventory)
                 pushed == [cache EXCEPT !.coins = Append(cache.coins, coin)]
                 coins == updateInventoryState(Tail(playerInventory), coin, "remove")
                 mem == writeThrough(cacheMementos, cacheKey, pushed)
             IN  /\ cacheDataMap' = [cacheDataMap EXCEPT ![cacheKey] = pushed]
                 /\ cacheMementos' = mem
                 /\ playerInventory' = coins
                 /\ localStorage' = saveGameState(playerLocation, coins, mem)
        ELSE UNCHANGED <<cacheDataMap, cacheMementos, playerInventory, localStorage>>

\* the deposit handler pushing to a cache object the memento store does not share
depositDetached(cacheKey) ==
    LET cache == cacheDataMap[cacheKey]
    IN  IF Len(playerInventory) > 0
        THEN LET coin == Last(playerInventory)
                 pushed == [cache EXCEPT !.coins = Append(cache.coins, coin)]
                 coins == updateInventoryState(Front(playerInventory), coin, "remove")
             IN  /\ cacheDataMap' = [cacheDataMap EXCEPT ![cacheKey] = pushed]
                 /\ cacheMementos' = cacheMementos
                 /\ playerInventory' = coins
                 /\ localStorage' = saveGameState(playerLocation, coins, cacheMementos)
        ELSE UNCHANGED <<cacheDataMap, cacheMementos, playerInventory, localStorage>>

\* the deposit handler of the popup of the cache at cacheKey
deposit(cacheKey) ==
    LET cache == cacheDataMap[cacheKey]
    IN  IF Len(playerInventory) > 0
        THEN LET coin == Last(playerInventory)
                 pushed == [cache EXCEPT !.coins = Append(cache.coins, coin)]
                 coins == updateInventoryState(Front(playerInventory), coin, "remove")
                 mem == writeThrough(cacheMementos, cacheKey, pushed)
             IN  /\ cacheDataMap' = [cacheDataMap EXCEPT ![cacheKey] = pushed]
                 /\ cacheMementos' = mem
                 /\ playerInventory' = coins
                 /\ localStorage' = saveGameState(playerLocation, coins, mem)
        ELSE UNCHANGED <<cacheDataMap, cacheMementos, playerInventory, localStorage>>

\* click on Collect in the popup of a cache drawn on the map
Collect(cacheKey) ==
    /\ pc = "running"
    /\ trip = NoTrip
    /\ cacheKey \in DOMAIN cacheDataMap
    /\ Len(cacheDataMap[cacheKey].coins) > 0 => clicks < MaxClicks
    /\ collect(cacheKey)
    /\ clicks' = IF Len(cacheDataMap[cacheKey].coins) > 0 THEN clicks + 1 ELSE clicks
    /\ inventoryHTML' = IF Len(cacheDataMap[cacheKey].coins) > 0
                        THEN updateInventoryUI(playerInventory') ELSE inventoryHTML
    /\ UNCHANGED <<pc, playerLocation, watchId, watches, polyline, trip>>

\* click on Deposit in the popup of a cache drawn on the map
Deposit(cacheKey) ==
    /\ pc = "running"
    /\ trip = NoTrip
    /\ cacheKey \in DOMAIN cacheDataMap
    /\ Len(playerInventory) > 0 => clicks < MaxClicks
    /\ deposit(cacheKey)
    /\ clicks' = IF Len(playerInventory) > 0 THEN clicks + 1 ELSE clicks
    /\ inventoryHTML' = IF Len(playerInventory) > 0
                        THEN updateInventoryUI(playerInventory') ELSE inventoryHTML
    /\ UNCHANGED <<pc, playerLocation, watchId, watches, polyline, trip>>

\* {} as Coin
EmptyObject == [kind |-> "{}"]

\* the reset handler without localStorage.removeItem: the slot keeps the
\* record updateInventory wrote
ResetKeepsSlot(confirmed) ==
    /\ pc = "running"
    /\ trip = NoTrip
    /\ IF confirmed
       THEN /\ playerInventory' = <<>>
            /\ inventoryHTML' = updateInventoryUI(playerInventory')
            /\ polyline' = 0
            /\ localStorage' = saveGameState(playerLocation, <<>>, cacheMementos)
       ELSE UNCHANGED <<playerInventory, inventoryHTML, polyline, localStorage>>
    /\ UNCHANGED <<pc, playerLocation, watchId, watches, cacheDataMap, cacheMementos, clicks, trip>>

\* the reset handler clearing the memento store and the active store as well
ResetDropsMementos(confirmed) ==
    /\ pc = "running"
    /\ trip = NoTrip
    /\ IF confirmed
       THEN /\ playerInventory' = <<>>
            /\ inventoryHTML' = updateInventoryUI(playerInventory')
            /\ polyline' = 0
            /\ localStorage' = Absent
            /\ cacheMementos' = EmptyMap
            /\ cacheDataMap' = EmptyMap
       ELSE UNCHANGED <<playerInventory, inventoryHTML, polyline, localStorage, cacheMementos, cacheDataMap>>
    /\ UNCHANGED <<pc, playerLocation, watchId, watches, clicks, trip>>

\* click on the reset button; confirmed is the answer to confirm(...)
Reset(confirmed) ==
    /\ pc = "running"
    /\ trip = NoTrip
    /\ IF confirmed
       THEN /\ playerInventory' = updateInventoryState(<<>>, EmptyObject, "remove")
            /\ inventoryHTML' = updateInventoryUI(playerInventory')
            /\ polyline' = 0
            /\ localStorage' = Absent
       ELSE UNCHANGED <<playerInventory, inventoryHTML, polyline, localStorage>>
    /\ UNCHANGED <<pc, playerLocation, watchId, watches, cacheDataMap, cacheMementos, clicks, trip>>

Next ==
    \/ Reload
    \/ \E index \in 1..4 : Move(index)
    \/ \E position \in GeoFixes : GeoPosition(position)
    \/ ToggleGeo
    \/ GeoError
    \/ \E cacheKey \in DOMAIN cacheDataMap : Collect(cacheKey)
    \/ \E cacheKey \in DOMAIN cacheDataMap : Deposit(cacheKey)
    \/ \E confirmed \in BOOLEAN : Reset(confirmed)

Spec == Init /\ [][Next]_vars

----------------------------------------------------------------------------
(* Round trips: on a cache that holds its seed coins, collect until it is  *)
(* empty, then deposit as many times, with nothing in between.  trip       *)
(* records the cache, its coin count, the inventory at the start and the   *)
(* number of clicks made in the current phase.                             *)

TripStart(cacheKey) ==
    /\ pc = "running"
    /\ trip = NoTrip
    /\ cacheKey \in DOMAIN cacheDataMap
    /\ cacheDataMap[cacheKey].coins = newCoins(cacheDataMap[cacheKey].cell)
    /\ Len(cacheDataMap[cacheKey].coins) > 0
    /\ trip' = [phase |-> "collect", key |-> cacheKey,
                count |-> Len(cacheDataMap[cacheKey].coins),
                coins |-> playerInventory, n |-> 0]
    /\ UNCHANGED <<pc, playerLocation, watchId, watches, polyline, cacheDataMap, cacheMementos,
                   playerInventory, inventoryHTML, localStorage, clicks>>

TripCollect ==
    /\ trip.phase = "collect"
    /\ collect(trip.key)
    /\ inventoryHTML' = IF Len(cacheDataMap[trip.key].coins) > 0
                        THEN updateInventoryUI(playerInventory') ELSE inventoryHTML
    /\ trip' = IF trip.n + 1 = trip.count
               THEN [trip EXCEPT !.phase = "deposit", !.n = 0]
               ELSE [trip EXCEPT !.n = trip.n + 1]
    /\ UNCHANGED <<pc, playerLocation, watchId, watches, polyline, clicks>>

TripDeposit ==
    /\ trip.phase = "deposit"
    /\ deposit(trip.key)
    /\ inventoryHTML' = IF Len(playerInventory) > 0
                        THEN updateInventoryUI(playerInventory') ELSE inventoryHTML
    /\ trip' = IF trip.n + 1 = trip.count
               THEN [trip EXCEPT !.phase = "done"]
               ELSE [trip EXCEPT !.n = trip.n + 1]
    /\ UNCHANGED <<pc, playerLocation, watchId, watches, polyline, clicks>>

TripEnd ==
    /\ trip.phase = "done"
    /\ trip' = NoTrip
    /\ UNCHANGED <<pc, playerLocation, watchId, watches, polyline, cacheDataMap, cacheMementos,
                   playerInventory, inventoryHTML, localStorage, clicks>>

NextTrip ==
    \/ \E index \in 1..4 : Move(index)
    \/ \E cacheKey \in DOMAIN cacheDataMap : Collect(cacheKey)
    \/ \E cacheKey \in DOMAIN cacheDataMap : Deposit(cacheKey)
    \/ \E cacheKey \in DOMAIN cacheDataMap : TripStart(cacheKey)
    \/ TripCollect
    \/ TripDeposit
    \/ TripEnd

SpecTrip == Init /\ [][NextTrip]_vars

----------------------------------------------------------------------------
(* Coins and where they are held *)

\* every occurrence of a coin: the place (the inventory or a memento key),
\* the position in that list, and the coin
Holdings ==
    {<<[inventory |-> TRUE, key |-> <<0, 0>>], n, playerInventory[n]>> :
        n \in DOMAIN playerInventory}
    \cup UNION {{<<[inventory |-> FALSE, key |-> k], n, cacheMementos[k].coins[n]>> :
                    n \in DOMAIN cacheMementos[k].coins} :
                k \in DOMAIN cacheMementos}

RECURSIVE SumLen(_, _)
SumLen(mem, keys) ==
    IF keys = {} THEN 0
    ELSE LET k == CHOOSE x \in keys : TRUE
         IN  Len(mem[k].coins) + SumLen(mem, keys \ {k})

\* coins over all caches of the memento store plus the inventory
TotalCoins == SumLen(cacheMementos, DOMAIN cacheMementos) + Len(playerInventory)

\* the multiset of the elements of a sequence
BagOf(s) ==
    [c \in {s[n] : n \in DOMAIN s} |-> Cardinality({n \in DOMAIN s : s[n] = c})]

\* some cache of the memento store holds a coin minted in another cell
ForeignCoinHeld ==
    \E k \in DOMAIN cacheMementos : \E n \in DOMAIN cacheMementos[k].coins :
        cacheMementos[k].coins[n].cell # cacheMementos[k].cell

\* a step is a click on Collect or Deposit of some drawn cache
TransferClick ==
    /\ polyline' = polyline
    /\ \E cacheKey \in DOMAIN cacheDataMap : Collect(cacheKey) \/ Deposit(cacheKey)

----------------------------------------------------------------------------
\* a step is a completed movePlayer from a direction button or the watch
MoveStep ==
    /\ polyline' = polyline + 1
    /\ \/ \E index \in 1..4 : Move(index)
       \/ \E position \in GeoFixes : GeoPosition(position)

\* a step is a handler of the running page (everything but a reload)
HandlerStep ==
    \/ MoveStep
    \/ TransferClick
    \/ ToggleGeo
    \/ \E confirmed \in BOOLEAN : Reset(confirmed)

\* the coins a cache at cacheKey is seeded with: floor(luck * 10) coins of
\* that cell, serials 0, 1, ... in order
SeedCoins(cacheKey) ==
    [n \in 1..(luck(<<cacheKey[1], cacheKey[2], "initialValue">>) \div 10) |->
        [cell |-> [lat |-> cacheKey[1], lng |-> cacheKey[2]], serial |-> n - 1]]

\* the caches the first load of a page without saved state materializes
FirstWindow == DOMAIN Startup(Absent).cacheMementos

(* C1: in every reachable state no coin (origin cell and serial) is held   *)
(* in two places: not in the inventory and a cache, not in two caches of   *)
(* the memento store, not twice in one list.                               *)
NoCoinHeldTwice ==
    \A h1, h2 \in Holdings : sameCoin(h1[3], h2[3]) => h1 = h2

\* the player carries coins of two different cells
WitnessCoinsSpread ==
    \E m, n \in DOMAIN playerInventory : playerInventory[m].cell # playerInventory[n].cell

(* C2: a click on Collect or Deposit, no-op or not, leaves the number of   *)
(* coins over all memento caches plus the inventory unchanged.             *)
TransfersConserveTotal == [][TransferClick => TotalCoins' = TotalCoins]_vars

\* a coin has been collected and deposited into a cache of another cell
WitnessTwoTransfers == clicks >= 2 /\ ForeignCoinHeld /\ Len(playerInventory) = 0

(* C3: within a session a cache that is not in the active store keeps its  *)
(* memento whatever handler runs, and a move, which clears the active      *)
(* store, changes no memento and materializes every cell it re-enters with *)
(* the coin list of its memento, not with the seed list.                   *)
ReentryRestoresMemento ==
    [][/\ HandlerStep =>
            \A k \in DOMAIN cacheMementos :
                /\ k \in DOMAIN cacheMementos'
                /\ k \notin DOMAIN cacheDataMap => cacheMementos'[k] = cacheMementos[k]
       /\ MoveStep =>
            \A k \in DOMAIN cacheMementos :
                /\ cacheMementos'[k] = cacheMementos[k]
                /\ k \in DOMAIN cacheDataMap' =>
                      cacheDataMap'[k].coins = cacheMementos[k].coins]_vars

\* a cache is active again after one of its coins was carried to a cache
\* that can never be in the window at the same time
WitnessReentered ==
    \E k \in DOMAIN cacheDataMap : \E h \in DOMAIN cacheMementos :
        /\ h[1] - k[1] > 2 * NEIGHBORHOOD_SIZE * TILE_DEGREES
           \/ k[1] - h[1] > 2 * NEIGHBORHOOD_SIZE * TILE_DEGREES
        /\ \E n \in DOMAIN cacheMementos[h].coins :
              cacheMementos[h].coins[n].cell = cacheMementos[k].cell
        /\ cacheDataMap[k].coins # SeedCoins(k)

(* C4: a cell without memento and without active cache is materialized     *)
(* with floor(luck(lat, lng, "initialValue") * 10) coins of that cell,     *)
(* serials 0, 1, ... in order, whatever happened before: on a move for the *)
(* cells the memento store does not hold, and on a load of the page for    *)
(* the cells the saved record does not hold (every cell of the window when *)
(* there is no saved state).                                               *)
NewCellsSeeded ==
    [][/\ MoveStep =>
            \A k \in DOMAIN cacheMementos' \ DOMAIN cacheMementos :
                cacheMementos'[k].coins = SeedCoins(k) /\ cacheDataMap'[k] = cacheMementos'[k]
       /\ (polyline' <= 1 /\ Reload) =>
            \A k \in DOMAIN cacheMementos' \ DOMAIN savedCacheMementos(localStorage) :
                cacheMementos'[k].coins = SeedCoins(k) /\ cacheDataMap'[k] = cacheMementos'[k]]_vars

\* a cache outside the first window is materialized with its seed coins
\* after coins were moved between other caches
WitnessSeededLater ==
    /\ ForeignCoinHeld
    /\ \E k \in DOMAIN cacheDataMap \ FirstWindow :
          Len(cacheDataMap[k].coins) > 0 /\ cacheDataMap[k].coins = SeedCoins(k)

(* C5: collecting a freshly spawned cache empty and depositing as many     *)
(* times, with nothing in between, leaves the cache with its original      *)
(* multiset of coins and the inventory as it was at the start.             *)
RoundTripRestores ==
    trip.phase = "done" =>
        /\ BagOf(cacheDataMap[trip.key].coins) = BagOf(newCoins(cacheDataMap[trip.key].cell))
        /\ BagOf(cacheMementos[trip.key].coins) = BagOf(newCoins(cacheDataMap[trip.key].cell))
        /\ playerInventory = trip.coins

\* a round trip over at least two coins, started with a coin in hand, is complete
WitnessRoundTrip == trip.phase = "done" /\ trip.count >= 2 /\ Len(trip.coins) > 0

(* C6: a Collect click on a cache with at least one coin removes the last  *)
(* coin of its list and appends that coin to the end of the inventory; no  *)
(* other cache and not the player location changes.                        *)
CollectTakesLast ==
    [][\A k \in DOMAIN cacheDataMap :
        (Collect(k) /\ Len(cacheDataMap[k].coins) > 0) =>
            /\ cacheDataMap'[k].coins = Front(cacheDataMap[k].coins)
            /\ cacheMementos'[k].coins = Front(cacheDataMap[k].coins)
            /\ playerInventory' = Append(playerInventory, Last(cacheDataMap[k].coins))
            /\ DOMAIN cacheDataMap' = DOMAIN cacheDataMap
            /\ DOMAIN cacheMementos' = DOMAIN cacheMementos
            /\ \A h \in DOMAIN cacheDataMap \ {k} : cacheDataMap'[h] = cacheDataMap[h]
            /\ \A h \in DOMAIN cacheMementos \ {k} : cacheMementos'[h] = cacheMementos[h]
            /\ playerLocation' = playerLocation]_vars

\* one coin collected from a cache seeded with three: two are left, the
\* inventory holds the third
WitnessCollectOnce ==
    \E k \in DOMAIN cacheDataMap :
        /\ Len(SeedCoins(k)) = 3
        /\ cacheDataMap[k].coins = Front(SeedCoins(k))
        /\ playerInventory = <<Last(SeedCoins(k))>>

\* a step is a click on Deposit of the cache at k, in or outside a round trip
DepositClick(k) == Deposit(k) \/ (TripDeposit /\ trip.key = k)

(* C7: a Deposit click with a non-empty inventory removes the last coin of *)
(* the inventory and nothing else from it, the other coins keeping their   *)
(* order, and appends that coin to the end of the target cache's list.     *)
DepositMovesLast ==
    [][\A k \in DOMAIN cacheDataMap :
        (DepositClick(k) /\ Len(playerInventory) > 0) =>
            /\ playerInventory' = Front(playerInventory)
            /\ cacheDataMap'[k].coins = Append(cacheDataMap[k].coins, Last(playerInventory))
            /\ cacheMementos'[k].coins = Append(cacheDataMap[k].coins, Last(playerInventory))]_vars

\* a deposit has left at least two coins, of the cell of the deposited one, in the inventory
WitnessDepositKeepsRest ==
    /\ trip.phase = "deposit" /\ trip.n >= 1
    /\ Len(playerInventory) >= 2
    /\ \A n \in DOMAIN playerInventory : playerInventory[n].cell = cacheDataMap[trip.key].cell

(* C8: a Collect click on a cache without coins and a Deposit click with   *)
(* an empty inventory change nothing: no cache, no memento, not the        *)
(* inventory, the player location or the durable record, and the page      *)
(* keeps running.                                                          *)
EmptySourceIsNoOp ==
    [][\A k \in DOMAIN cacheDataMap :
        \/ Collect(k) /\ Len(cacheDataMap[k].coins) = 0
        \/ Deposit(k) /\ Len(playerInventory) = 0
        => /\ UNCHANGED <<cacheDataMap, cacheMementos, playerInventory,
                          playerLocation, localStorage>>
           /\ pc' = "running"]_vars

\* after a reset the slot is empty, the inventory is empty and a cache
\* without coins is drawn: both no-op clicks are possible
WitnessEmptySources ==
    /\ pc = "running"
    /\ localStorage = Absent
    /\ Len(playerInventory) = 0
    /\ clicks > 0
    /\ \E k \in DOMAIN cacheDataMap : Len(cacheDataMap[k].coins) = 0

(* C9: whenever the slot is absent or holds a malformed value at startup,  *)
(* the module loads: startup never fails.                                  *)
StartupNeverFails == pc = "running"

ResetClears ==
    [][\A confirmed \in BOOLEAN :
        Reset(confirmed) =>
            IF confirmed
            THEN playerInventory' = <<>> /\ polyline' = 0 /\ localStorage' = Absent
            ELSE UNCHANGED vars]_vars

\* a reset has run after exactly one coin was collected: the coin is gone
\* from the inventory, the trail has no point and the slot is empty
WitnessResetDone ==
    /\ clicks = 1
    /\ playerInventory = <<>>
    /\ polyline = 0
    /\ localStorage = Absent

\* the grid cell the player stands in
playerGrid == latLngToGrid(playerLocation.lat, playerLocation.lng)

\* the keys of the cells of the scan window around grid cell g
windowKeys(g) ==
    {<<i * TILE_DEGREES, j * TILE_DEGREES>> :
        i \in (g.i - NEIGHBORHOOD_SIZE)..(g.i + NEIGHBORHOOD_SIZE),
        j \in (g.j - NEIGHBORHOOD_SIZE)..(g.j + NEIGHBORHOOD_SIZE)}

(* C12: a move leaves in the active store only caches of the new window    *)
(* (the store is cleared before it is filled again); a move, a Collect     *)
(* click and a Deposit click remove no key from the memento store; a move  *)
(* changes no coin list of a cache the memento store already holds and not *)
(* the inventory, and the keys it adds are cells of the new window.        *)
MementosOnlyGrow ==
    [][/\ (TransferClick \/ MoveStep) => DOMAIN cacheMementos \subseteq DOMAIN cacheMementos'
       /\ MoveStep =>
            /\ DOMAIN cacheDataMap' \subseteq windowKeys(playerGrid')
            /\ \A k \in DOMAIN cacheMementos :
                  cacheMementos'[k].coins = cacheMementos[k].coins
            /\ playerInventory' = playerInventory
            /\ DOMAIN cacheMementos' \ DOMAIN cacheMementos \subseteq windowKeys(playerGrid')]_vars

\* a move has taken a cache the player collected from out of the active
\* store and brought in a cache the first window did not hold; the changed
\* cache is still in the memento store and the coin is still carried
WitnessMovedAway ==
    /\ Len(playerInventory) > 0
    /\ \E k \in DOMAIN cacheMementos \ DOMAIN cacheDataMap :
          cacheMementos[k].coins # SeedCoins(k)
    /\ DOMAIN cacheDataMap \ FirstWindow # {}

(* C13: while the page runs (after startup and after every move, by button *)
(* or by geolocation callback, whatever other handlers ran in between) the *)
(* keys of the active store are exactly the cells (i0 + di, j0 + dj), di   *)
(* and dj in -N..N around the player's grid cell, whose spawn luck is      *)
(* below CACHE_SPAWN_PROBABILITY.                                          *)
ActiveStoreIsWindow ==
    pc = "running" =>
        DOMAIN cacheDataMap =
            {k \in windowKeys(playerGrid) :
                luck(<<k[1] \div TILE_DEGREES, k[2] \div TILE_DEGREES, "spawn">>)
                    < CACHE_SPAWN_PROBABILITY}

\* a geolocation callback has moved the player, after a coin transfer, to a
\* cell whose window drops a cache of the first window and holds a new one
WitnessGeoWindow ==
    /\ playerLocation \in GeoFixes
    /\ clicks > 0
    /\ FirstWindow \ DOMAIN cacheDataMap # {}
    /\ DOMAIN cacheDataMap \ FirstWindow # {}

(* C14: in every reachable state every key of the active store is a key of *)
(* the memento store and the memento holds the coin list of the active     *)
(* cache; so right after a Collect or Deposit click the memento of the     *)
(* touched cache shows the new list.                                       *)
MementoMirrorsActive ==
    \A k \in DOMAIN cacheDataMap :
        /\ k \in DOMAIN cacheMementos
        /\ cacheMementos[k].coins = cacheDataMap[k].coins

\* an active cache holds more coins than it was seeded with, one of them of
\* another cell, and fewer are carried than were collected: a deposit has
\* just changed this cache, and its memento shows the coin
WitnessDepositMirrored ==
    /\ clicks = 2
    /\ \E k \in DOMAIN cacheDataMap :
          /\ Len(cacheDataMap[k].coins) > Len(SeedCoins(k))
          /\ Last(cacheDataMap[k].coins).cell # cacheDataMap[k].cell
          /\ Last(cacheMementos[k].coins) = Last(cacheDataMap[k].coins)

\* the multiset of coins over all caches of the memento store plus the inventory
CoinBag ==
    [c \in {h[3] : h \in Holdings} |-> Cardinality({h \in Holdings : h[3] = c})]

\* the multiset of the coins the caches at keys are seeded with
SeedBag(keys) ==
    [c \in UNION {{SeedCoins(k)[n] : n \in DOMAIN SeedCoins(k)} : k \in keys} |-> 1]

\* a step is a confirmed reset
ResetStep == polyline' = 0 /\ Reset(TRUE)

(* C15, as stated: under move, collect, deposit and reset the multiset of  *)
(* coins over all memento caches plus the inventory changes only by the    *)
(* seeding of the cells materialized for the first time.                   *)
CoinsNeverDestroyed ==
    [][HandlerStep =>
        CoinBag' = CoinBag (+) SeedBag(DOMAIN cacheMementos' \ DOMAIN cacheMementos)]_vars

(* C15, amended: a Collect or Deposit click leaves the multiset of coins   *)
(* over all memento caches plus the inventory unchanged, a move adds       *)
(* exactly the seed coins of the cells it materializes for the first time, *)
(* and a confirmed reset removes from it exactly the coins carried in the  *)
(* inventory, which are then in no cache and not in the inventory.         *)
CoinsLostOnlyByReset ==
    [][/\ TransferClick => CoinBag' = CoinBag
       /\ MoveStep =>
            CoinBag' = CoinBag (+) SeedBag(DOMAIN cacheMementos' \ DOMAIN cacheMementos)
       /\ ResetStep =>
            /\ CoinBag' = CoinBag (-) BagOf(playerInventory)
            /\ \A n \in DOMAIN playerInventory :
                  \A h \in Holdings' : h[3] # playerInventory[n]]_vars

\* a coin a memento cache was seeded with is in no cache and not in the
\* inventory, while another coin has been collected since
WitnessCoinLost ==
    /\ Len(playerInventory) > 0
    /\ \E k \in DOMAIN cacheMementos : \E n \in DOMAIN SeedCoins(k) :
          \A h \in Holdings : h[3] # SeedCoins(k)[n]

(* C16: a confirmed reset leaves the memento store, the active store and   *)
(* the player location as they are, and the moves that follow materialize  *)
(* every cache the memento store holds with the coin list of its memento:  *)
(* a cache emptied before the reset is empty when it is drawn again.       *)
ResetKeepsMementos ==
    [][/\ ResetStep =>
            /\ cacheMementos' = cacheMementos
            /\ cacheDataMap' = cacheDataMap
            /\ playerLocation' = playerLocation
       /\ MoveStep =>
            \A k \in DOMAIN cacheMementos \cap DOMAIN cacheDataMap' :
                cacheDataMap'[k].coins = cacheMementos[k].coins]_vars

\* the only coin collected, from a cache seeded with one coin, was carried
\* when a reset ran; after a later move that cache is drawn without coins
WitnessEmptiedStaysEmpty ==
    /\ clicks = 1
    /\ playerInventory = <<>>
    /\ localStorage # Absent
    /\ polyline = 2
    /\ \E k \in DOMAIN cacheDataMap \ FirstWindow :
          Len(SeedCoins(k)) = 1 /\ cacheDataMap[k].coins = <<>>

(* C17: a click that stops the geolocation watch and a geolocation failure *)
(* change neither the player location, the inventory, the active store,    *)
(* the memento store nor the slot; the globe button alternates between     *)
(* starting and stopping the watch, the browser holding a watch exactly    *)
(* while watchId is set, so that a position callback moves the player only *)
(* between a start and the next stop.                                      *)
WatchTogglesCleanly ==
    [][/\ ToggleGeo =>
            /\ UNCHANGED <<playerLocation, playerInventory, cacheDataMap,
                           cacheMementos, localStorage, polyline, pc>>
            /\ (watchId = NULL) # (watchId' = NULL)
       /\ GeoError => UNCHANGED vars
       /\ (watchId' = NULL) <=> (watches' = 0)
       /\ (polyline' = polyline + 1 /\ \E position \in GeoFixes : GeoPosition(position))
            => watchId # NULL /\ watchId' = watchId]_vars

\* the watch has been stopped after a position callback moved the player
\* and a coin was collected there
WitnessWatchStopped ==
    /\ watchId = NULL
    /\ watches = 0
    /\ playerLocation \in GeoFixes
    /\ polyline = 2
    /\ clicks = 1
    /\ Len(playerInventory) = 1

----------------------------------------------------------------------------
(* Listings *)

\* updatePopupCoins(coins, popupDiv): the ids the popup's #coinList shows
updatePopupCoins(coins) ==
    [n \in DOMAIN coins |->
        <<formatCoord(coins[n].cell.lat), formatCoord(coins[n].cell.lng), coins[n].serial>>]

\* createCachePopup without its last call: the list is the one of the
\* template, which names every coin after the cache's own i and j
createCachePopupTemplate(cache, i, j) ==
    [n \in DOMAIN cache.coins |-> <<i, j, cache.coins[n].serial>>]

\* createCachePopup(cache, i, j): the ids the new popup lists.  The list of
\* the template is replaced by updatePopupCoins before the popup is returned.
createCachePopup(cache, i, j) == updatePopupCoins(cache.coins)

\* the popup of the drawn cache at cacheKey: bindPopup is given a function,
\* so the popup is built from the cache whenever it is opened, and the click
\* handlers end with updatePopupCoins(cache.coins, popupDiv)
popupOf(cacheKey) ==
    createCachePopup(cacheDataMap[cacheKey],
                     latLngToGrid(cacheKey[1], cacheKey[2]).i,
                     latLngToGrid(cacheKey[1], cacheKey[2]).j)

\* a coin named by the grid indices of its origin cell and its serial
originId(coin) ==
    <<latLngToGrid(coin.cell.lat, coin.cell.lng).i,
      latLngToGrid(coin.cell.lat, coin.cell.lng).j, coin.serial>>

(* C18: every coin held in the inventory or in a cache is one of the coins *)
(* its origin cell was seeded with, whatever cache holds it now, and the   *)
(* inventory listing and the popup listing of every drawn cache name each  *)
(* coin by the grid indices of its origin cell and its serial.             *)
CoinsKeepIdentity ==
    /\ \A h \in Holdings :
          \E n \in DOMAIN SeedCoins(<<h[3].cell.lat, h[3].cell.lng>>) :
              SeedCoins(<<h[3].cell.lat, h[3].cell.lng>>)[n] = h[3]
    /\ Len(inventoryHTML) = Len(playerInventory)
    /\ \A n \in DOMAIN playerInventory : inventoryHTML[n] = originId(playerInventory[n])
    /\ \A k \in DOMAIN cacheDataMap :
          /\ Len(popupOf(k)) = Len(cacheDataMap[k].coins)
          /\ \A n \in DOMAIN cacheDataMap[k].coins :
                popupOf(k)[n] = originId(cacheDataMap[k].coins[n])

\* a drawn cache holds a coin of another cell, and its popup lists the coin
\* under the other cell's indices
WitnessForeignListed ==
    \E k \in DOMAIN cacheDataMap : \E n \in DOMAIN cacheDataMap[k].coins :
        /\ cacheDataMap[k].coins[n].cell # cacheDataMap[k].cell
        /\ popupOf(k)[n] = originId(cacheDataMap[k].coins[n])
        /\ <<popupOf(k)[n][1], popupOf(k)[n][2]>> #
              <<latLngToGrid(k[1], k[2]).i, latLngToGrid(k[1], k[2]).j>>

====
